---- MODULE Spec2Model ----
(***************************************************************************)
(* The campaign send loop of the WhatsApp campaign dashboard:              *)
(*   - the campaign routes (start / pause / stop / delete) and             *)
(*     processCampaign of the routes file (src/unnamed/part_000),          *)
(*   - WhatsappService (src/server/services/whatsapp.ts): connect,         *)
(*     disconnect and sendMessage with its reconnect-and-retry,            *)
(*   - the store operations the loop uses (MemStorage / SQLiteStorage).    *)
(*                                                                         *)
(* Granularity.  The server is one Node.js event loop.  The store is       *)
(* better-sqlite3 (synchronous) behind async methods, so an `await` of a   *)
(* store call resumes in a microtask: no timer, HTTP request or gateway    *)
(* callback runs in between.  A handler therefore runs atomically from one *)
(* real suspension (a setTimeout, a call into the browser-automation       *)
(* client) to the next, and each action below is one such stretch.  The    *)
(* positions a run can be suspended at are the values of its pc.           *)
(***************************************************************************)
EXTENDS Integers, Sequences, FiniteSets, TLC

\* ---------------------------------------------------------------- bounds
NumContacts == 2      \* contacts imported into the campaign
MaxRuns     == 2      \* processCampaign invocations over the whole behaviour
MaxBlocks   == 1      \* length of campaign.messageBlocks
MaxCmds     == 3      \* start / pause / stop / delete commands
MaxGwCmds   == 1      \* calls of the /api/whatsapp/connect and /disconnect routes
MaxFaults   == 1      \* gateway / log calls that fail or throw over the whole behaviour
MaxTemplateLen == 2   \* tokens of a message template
MaxFields   == 2      \* custom fields of a contact

\* ------------------------------------------------------ program constants
DefaultRetries  == 2  \* sendMessage(to, message, retries = 2, ...)
MaxPollAttempts == 15 \* while (connectionAttempts < 15 && this.isConnecting)

Contacts == 1..NumContacts
Runs     == 1..MaxRuns

CampaignStatuses == {"draft", "active", "paused", "stopped", "completed"}
ContactStatuses  == {"pending", "sent", "failed"}

\* Activity-log entry types and broadcast event types that are counted.
\* Index 0 is the campaign itself, index c > 0 the contact the entry is about.
LogTypes == {"message_sent", "error", "message_failed", "campaign_completed",
             "campaign_started", "campaign_paused", "campaign_stopped",
             "campaign_deleted", "connection"}
EventTypes == {"progress_sent", "progress_failed", "message_block_sent",
               "campaign_completed", "campaign_started", "campaign_paused",
               "campaign_stopped", "campaign_deleted", "message_sent",
               "message_error", "whatsapp_connected", "whatsapp_disconnected"}

\* The failure reasons sendMessage returns, by the text of the message.
ErrNotConnected    == "WhatsApp not connected"                 \* client absent
ErrStateNotConn    == "WhatsApp nao conectado. Estado"         \* state # CONNECTED
ErrDetached        == "detached Frame"                         \* transient, retries used up
ErrReconnectFailed == "Falha ao reconectar apos erro de Frame" \* client still null after polling
ErrReconnectError  == "Erro ao reconectar"                     \* the reset itself threw
ErrPermanent       == "permanent"                              \* any other error.message
ExceptionMessage   == "exception"                              \* error.message of a thrown error

VARIABLES
  camp,          \* the campaign row: exists, status, sentCount, failedCount, totalContacts
  messageBlocks, \* campaign.messageBlocks: a sequence of "text" / "blank" blocks
  contacts,      \* the contact rows, in stored order 1..NumContacts
  alog,          \* activity log: number of entries per type and subject
  events,        \* broadcast events: number per type and subject
  delivered,     \* per contact, the primary messages sendText has delivered to it
  gw,            \* WhatsappService: client, isConnecting, in-flight create() and close()
  runs,          \* the processCampaign invocations
  ncmd,          \* start / pause / stop / delete commands issued
  ngw,           \* connect / disconnect route calls issued
  nfault,        \* failing or throwing gateway / log calls so far
  render,        \* a call of replaceVariables: its inputs and, once made, its output
  hook           \* the client's useWebSocket hook: its socket, counter and timers

vars == <<camp, messageBlocks, contacts, alog, events, delivered, gw, runs, ncmd, ngw, nfault,
          render, hook>>

\* The mutable world a handler works on, as one value.
World == [camp |-> camp, contacts |-> contacts, alog |-> alog, events |-> events,
          delivered |-> delivered, gw |-> gw]

IdleRun == [pc |-> "idle", pending |-> <<>>, k |-> 0, cur |-> [sentCount |-> 0, failedCount |-> 0],
            seg |-> 0, retries |-> 0, polls |-> 0, tries |-> 0, resets |-> 0, ret |-> "none",
            exc |-> 0, pausedAt |-> 0, emitted |-> FALSE, okBlocks |-> 0,
            refused |-> 0]


\* ------------------------------------------------------------------ store
\* storage.updateCampaign(id, {field: value}): a partial update of the row;
\* no row, no effect.
UpdateCampaign(w, field, value) ==
  IF w.camp.exists THEN [w EXCEPT !.camp[field] = value] ELSE w

\* storage.updateContact(id, {status: 'sent', sentAt: now})
UpdateContactSent(w, c) ==
  IF w.contacts[c].exists
  THEN [w EXCEPT !.contacts[c].status = "sent", !.contacts[c].sentAt = @ + 1]
  ELSE w

\* storage.updateContact(id, {status: 'failed', errorMessage: msg})
UpdateContactFailed(w, c, msg) ==
  IF w.contacts[c].exists
  THEN [w EXCEPT !.contacts[c].status = "failed", !.contacts[c].errorMessage = msg]
  ELSE w

\* storage.createActivityLog({type, ...}) about subject c (0: the campaign)
CreateActivityLog(w, type, c) == [w EXCEPT !.alog[type][c] = @ + 1]

\* broadcast({type, data}) about subject c
Broadcast(w, type, c) == [w EXCEPT !.events[type][c] = @ + 1]

\* The pending contacts selected last-stored first.
RECURSIVE PendingFromReversed(_, _)
PendingFromReversed(cs, c) ==
  IF c > NumContacts THEN <<>>
  ELSE IF cs[c].exists /\ cs[c].status = "pending"
       THEN PendingFromReversed(cs, c + 1) \o <<c>>
       ELSE PendingFromReversed(cs, c + 1)

\* storage.getContactsByCampaign(id).filter(status === 'pending'), as the
\* sequence of contact ids in stored order
RECURSIVE PendingFrom(_, _)
PendingFrom(cs, c) ==
  IF c > NumContacts THEN <<>>
  ELSE IF cs[c].exists /\ cs[c].status = "pending"
       THEN <<c>> \o PendingFrom(cs, c + 1)
       ELSE PendingFrom(cs, c + 1)

PendingContacts(cs) == PendingFrom(cs, 1)

\* --------------------------------------------- gateway event listeners
\* whatsappService.on('messageSent'): broadcast and log one message_sent entry
OnMessageSent(w, c) == CreateActivityLog(Broadcast(w, "message_sent", c), "message_sent", c)

\* whatsappService.on('messageError'): broadcast and log one message_failed entry
OnMessageError(w, c) == CreateActivityLog(Broadcast(w, "message_error", c), "message_failed", c)

\* whatsappService.on('connected')
OnConnected(w) == CreateActivityLog(Broadcast(w, "whatsapp_connected", 0), "connection", 0)

\* whatsappService.on('disconnected')
OnDisconnected(w) == CreateActivityLog(Broadcast(w, "whatsapp_disconnected", 0), "connection", 0)

\* ------------------------------------------------- processCampaign, loop
\* A step of a run is a pair [w, run]: the world and the run after it.
\* (run.okBlocks counts the blocks sent to the current contact so far,
\* run.refused the contacts of the run whose primary send was refused because
\* the gateway was not connected.)
Step(w, run) == [w |-> w, run |-> run]

\* The contact the run is working on.
CurContact(run) == run.pending[run.k]

\* A completion that ends the run without touching the campaign.
FinishLeavesStatus(w, run) == Step(w, [run EXCEPT !.pc = "done"])

\* A completion that does not look at the contacts left pending.
FinishAlwaysCompletes(w, run) ==
  Step(Broadcast(CreateActivityLog(UpdateCampaign(w, "status", "completed"),
                                   "campaign_completed", 0),
                 "campaign_completed", 0),
       [run EXCEPT !.pc = "done", !.emitted = TRUE])

\* After the loop: re-read the contacts; if none is pending mark the campaign
\* completed, log it and broadcast campaign_completed.
Finish(w, run) ==
  IF PendingContacts(w.contacts) = <<>>
  THEN Step(Broadcast(CreateActivityLog(UpdateCampaign(w, "status", "completed"),
                                        "campaign_completed", 0),
                      "campaign_completed", 0),
            [run EXCEPT !.pc = "done", !.emitted = TRUE])
  ELSE Step(w, [run EXCEPT !.pc = "done"])

\* A success branch that writes back the whole row read at the checkpoint
\* (status active included) with the new sentCount.
AfterPrimaryOkWritesRow(w, run) ==
  Step(Broadcast(UpdateCampaign(UpdateCampaign(w, "sentCount", run.cur.sentCount + 1),
                                "status", "active"),
                 "progress_sent", CurContact(run)),
       [run EXCEPT !.pc = "waitNext"])

\* End of the success branch: sentCount from the checkpoint's snapshot plus
\* one, the sent progress event, then the interval wait.
AfterPrimaryOk(w, run) ==
  Step(Broadcast(UpdateCampaign(w, "sentCount", run.cur.sentCount + 1),
                 "progress_sent", CurContact(run)),
       [run EXCEPT !.pc = "waitNext"])

\* The results with which sendMessage refuses a send because the gateway is
\* not connected: no client, or a connection state other than CONNECTED.
IsNotConnected(err) == err \in {ErrNotConnected, ErrStateNotConn}

\* A failure branch that ends the run: the contact is failed and counted, the
\* remaining contacts are left as they are.
FailPrimaryEndsRun(w, run, err) ==
  Step(Broadcast(UpdateCampaign(UpdateContactFailed(w, CurContact(run), err),
                                "failedCount", run.cur.failedCount + 1),
                 "progress_failed", CurContact(run)),
       [run EXCEPT !.pc = "done", !.ret = err,
                   !.refused = IF IsNotConnected(err) THEN @ + 1 ELSE @])

\* A failure branch that goes on to the blocks of the contact.
FailPrimarySendsBlocks(w, run, err) ==
  Step(Broadcast(UpdateCampaign(UpdateContactFailed(w, CurContact(run), err),
                                "failedCount", run.cur.failedCount + 1),
                 "progress_failed", CurContact(run)),
       [run EXCEPT !.pc = IF Len(messageBlocks) > 0 THEN "waitBlock" ELSE "waitNext",
                   !.seg = IF Len(messageBlocks) > 0 THEN 1 ELSE 0,
                   !.ret = err,
                   !.refused = IF IsNotConnected(err) THEN @ + 1 ELSE @])

\* A failure branch that counts and announces the failure but leaves the
\* contact as it was.
FailPrimaryLeavesContact(w, run, err) ==
  Step(Broadcast(UpdateCampaign(w, "failedCount", run.cur.failedCount + 1),
                 "progress_failed", CurContact(run)),
       [run EXCEPT !.pc = "waitNext", !.ret = err,
                   !.refused = IF IsNotConnected(err) THEN @ + 1 ELSE @])

\* The failure branch: contact failed, failedCount from the snapshot plus one,
\* the failed progress event, then the interval wait.
FailPrimary(w, run, err) ==
  Step(Broadcast(UpdateCampaign(UpdateContactFailed(w, CurContact(run), err),
                                "failedCount", run.cur.failedCount + 1),
                 "progress_failed", CurContact(run)),
       [run EXCEPT !.pc = "waitNext", !.ret = err,
                   !.refused = IF IsNotConnected(err) THEN @ + 1 ELSE @])

\* for (i ...) if (block && block.trim() !== ''): the first non-blank block
\* at index >= i, or 0 when there is none.
RECURSIVE NextBlock(_, _)
NextBlock(blocks, i) ==
  IF i > Len(blocks) THEN 0
  ELSE IF blocks[i] = "text" THEN i ELSE NextBlock(blocks, i + 1)

\* The block loop from index i on: wait the interval before the next
\* non-blank block, or leave the loop.
AdvanceBlock(w, run, i) ==
  IF NextBlock(messageBlocks, i) = 0
  THEN AfterPrimaryOk(w, run)
  ELSE Step(w, [run EXCEPT !.pc = "waitBlock", !.seg = NextBlock(messageBlocks, i)])

\* A sendMessage that treats an absent client like a transient failure: one
\* attempt and one reset are spent before it gives up.
StartPrimaryResetsFirst(w, run) ==
  IF ~w.gw.client
  THEN FailPrimary(w, [run EXCEPT !.seg = 0, !.retries = DefaultRetries - 1,
                                  !.tries = 1, !.resets = 1, !.okBlocks = 0], ErrNotConnected)
  ELSE Step(w, [run EXCEPT !.pc = "attempt", !.seg = 0, !.retries = DefaultRetries,
                           !.tries = 0, !.resets = 0, !.ret = "none", !.okBlocks = 0])

\* sendMessage entry for the primary message: no client, immediate failure;
\* otherwise the call is suspended in its first attempt.
StartPrimary(w, run) ==
  IF ~w.gw.client
  THEN FailPrimary(w, [run EXCEPT !.seg = 0, !.retries = DefaultRetries,
                                  !.tries = 0, !.resets = 0, !.okBlocks = 0], ErrNotConnected)
  ELSE Step(w, [run EXCEPT !.pc = "attempt", !.seg = 0, !.retries = DefaultRetries,
                           !.tries = 0, !.resets = 0, !.ret = "none", !.okBlocks = 0])

\* A loop head that does not re-read the campaign.
LoopTopWithoutCheckpoint(w, run) ==
  IF run.k + 1 > Len(run.pending) THEN Finish(w, run)
  ELSE StartPrimary(w, [run EXCEPT !.k = @ + 1,
                                   !.cur = [sentCount |-> w.camp.sentCount,
                                            failedCount |-> w.camp.failedCount]])

\* One step of `for (const contact of pendingContacts)` after contact run.k:
\* the loop ends when the list is exhausted or the checkpoint finds the
\* campaign missing or not active; otherwise the snapshot currentCampaign is
\* taken and the primary send of contact run.k + 1 starts.
LoopTop(w, run) ==
  IF run.k + 1 > Len(run.pending) THEN Finish(w, run)
  ELSE IF ~w.camp.exists \/ w.camp.status # "active" THEN Finish(w, run)
  ELSE StartPrimary(w, [run EXCEPT !.k = @ + 1,
                                   !.cur = [sentCount |-> w.camp.sentCount,
                                            failedCount |-> w.camp.failedCount]])

\* A catch placed around the whole loop instead of inside it: the contact is
\* marked failed and the loop is left.
CatchLeavesLoop(w, run) ==
  Finish(UpdateContactFailed(w, CurContact(run), ExceptionMessage),
         [run EXCEPT !.exc = @ + 1])

\* catch (error) of the per-contact try: contact failed with error.message;
\* the loop goes on with the next contact (no interval wait on this path).
Catch(w, run) ==
  LoopTop(UpdateContactFailed(w, CurContact(run), ExceptionMessage),
          [run EXCEPT !.exc = @ + 1])

\* result.success of the primary send: contact sent, the message_sent log
\* entry (logThrows: createActivityLog rejects), then the blocks.
PrimaryOk(w, run, logThrows) ==
  IF logThrows
  THEN Catch(UpdateContactSent(w, CurContact(run)), [run EXCEPT !.ret = "ok"])
  ELSE AdvanceBlock(CreateActivityLog(UpdateContactSent(w, CurContact(run)),
                                      "message_sent", CurContact(run)),
                    [run EXCEPT !.ret = "ok"], 1)

\* blockResult.error?.includes('detached Frame') || ...includes('não conectado')
IsConnectionError(err) == err \in {ErrDetached, ErrStateNotConn}

\* The result of a block send.
BlockResult(w, run, ok, err) ==
  IF ok
  THEN AdvanceBlock(Broadcast(CreateActivityLog(w, "message_sent", CurContact(run)),
                              "message_block_sent", CurContact(run)),
                    [run EXCEPT !.ret = "ok", !.okBlocks = @ + 1], run.seg + 1)
  ELSE IF IsConnectionError(err)
       THEN AfterPrimaryOk(CreateActivityLog(w, "error", CurContact(run)),
                           [run EXCEPT !.ret = err])
       ELSE AdvanceBlock(CreateActivityLog(w, "error", CurContact(run)),
                         [run EXCEPT !.ret = err], run.seg + 1)

\* catch (error) around the block loop: one error log entry, blocks abandoned.
BlockThrow(w, run) ==
  AfterPrimaryOk(CreateActivityLog(w, "error", CurContact(run)), run)

\* A block send that does not re-read the campaign before sending.
StartBlockWithoutRecheck(w, run) ==
  IF ~w.gw.client
  THEN BlockResult(w, [run EXCEPT !.retries = DefaultRetries, !.tries = 0, !.resets = 0],
                   FALSE, ErrNotConnected)
  ELSE Step(w, [run EXCEPT !.pc = "attempt", !.retries = DefaultRetries,
                           !.tries = 0, !.resets = 0, !.ret = "none"])

\* After the wait before a block: the status re-check, then sendMessage entry.
StartBlock(w, run) ==
  IF ~w.camp.exists \/ w.camp.status # "active" THEN AfterPrimaryOk(w, run)
  ELSE IF ~w.gw.client
       THEN BlockResult(w, [run EXCEPT !.retries = DefaultRetries, !.tries = 0, !.resets = 0],
                        FALSE, ErrNotConnected)
       ELSE Step(w, [run EXCEPT !.pc = "attempt", !.retries = DefaultRetries,
                                !.tries = 0, !.resets = 0, !.ret = "none"])

\* sendMessage has returned {success, error} to processCampaign.
Deliver(w, run, ok, err, logThrows) ==
  IF run.seg = 0
  THEN IF ok THEN PrimaryOk(w, run, logThrows) ELSE FailPrimary(w, run, err)
  ELSE BlockResult(w, run, ok, err)

\* sendMessage has thrown into processCampaign.
Thrown(w, run) == IF run.seg = 0 THEN Catch(w, run) ELSE BlockThrow(w, run)

\* A processCampaign without its entry test.
ProcessCampaignWithoutGuard(w, run) ==
  LoopTop(w, [run EXCEPT !.pending = PendingContacts(w.contacts), !.k = 0])

\* processCampaign up to its first suspension: load the campaign, return
\* unless it is active, select the pending contacts, enter the loop.
ProcessCampaign(w, run) ==
  IF ~w.camp.exists \/ w.camp.status # "active"
  THEN Step(w, [run EXCEPT !.pc = "done"])
  ELSE LoopTop(w, [run EXCEPT !.pending = PendingContacts(w.contacts), !.k = 0])

\* ------------------------------------------------------ WhatsappService
\* connect(), up to `await create(...)`: nothing while a connection attempt
\* is flagged or a client exists; otherwise flag it and start create().
GwConnect(g) ==
  IF g.isConnecting \/ g.client THEN g
  ELSE [g EXCEPT !.isConnecting = TRUE, !.creating = @ + 1]

\* What the suspended attempt of sendMessage (getConnectionState, the typing
\* simulation, sendText) can come back with.
\*   ok         sendText resolved
\*   state_bad  getConnectionState() is not CONNECTED
\*   transient  sendText rejected with a 'detached Frame' error
\*   permanent  sendText rejected with another Error (a TypeError when
\*              this.client was set to null meanwhile)
\*   throw      sendText rejected with a value that has no .message, so the
\*              catch block itself throws on error.message.includes
Outcomes == {"ok", "state_bad", "transient", "permanent", "throw"}

\* The attempt, once this.client.sendText has been called.
Tried(run) == [run EXCEPT !.tries = @ + 1]

\* sendText resolved: the message is out (counted per contact for the
\* primary message) and 'messageSent' is emitted.
SentText(w, run) ==
  OnMessageSent(IF run.seg = 0 THEN [w EXCEPT !.delivered[CurContact(run)] = @ + 1] ELSE w,
                CurContact(run))

\* sendMessage from the resolution of its attempt to its return (or to its
\* next suspension inside the gateway reset).
AttemptResult(w, run, outcome, logThrows) ==
  CASE outcome = "state_bad" ->
         Deliver(w, run, FALSE, ErrStateNotConn, FALSE)
    [] outcome = "ok" ->
         Deliver(SentText(w, run), Tried(run), TRUE, "", logThrows)
    [] outcome = "transient" ->
         IF run.retries > 0
         THEN \* await this.disconnect(): close() only when a client exists
              Step(w, [Tried(run) EXCEPT !.resets = @ + 1,
                                         !.pc = IF w.gw.client THEN "closing" ELSE "settle"])
         ELSE Deliver(OnMessageError(w, CurContact(run)), Tried(run), FALSE, ErrDetached, FALSE)
    [] outcome = "permanent" ->
         Deliver(OnMessageError(w, CurContact(run)), Tried(run), FALSE, ErrPermanent, FALSE)
    [] OTHER -> \* "throw"
         IF run.retries < DefaultRetries
         THEN \* a retry's exception is caught by the caller's reconnect catch
              Deliver(w, Tried(run), FALSE, ErrReconnectError, FALSE)
         ELSE Thrown(w, Tried(run))

\* disconnect() after `await this.client.close()`: client = null, 'disconnected'.
Disconnected(w) == OnDisconnected([w EXCEPT !.gw.client = FALSE])

\* After the 3 s settle wait: this.isConnecting = true; await this.connect();
\* then the polling loop is entered or skipped.
AfterSettle(w, run) ==
  Step([w EXCEPT !.gw = GwConnect([w.gw EXCEPT !.isConnecting = TRUE])],
       [run EXCEPT !.pc = "poll", !.polls = 0])

\* After the polling loop: retry with retries - 1 when a client exists (the
\* retry's entry check passes), else the reconnection-failed result.
AfterPolling(w, run) ==
  IF w.gw.client
  THEN Step(w, [run EXCEPT !.pc = "attempt", !.retries = @ - 1])
  ELSE Deliver(w, run, FALSE, ErrReconnectFailed, FALSE)

\* The polling loop `while (connectionAttempts < 15 && this.isConnecting)
\* { wait 1 s; connectionAttempts++ }` as one wait.  Time is not modelled, so
\* the turns in which the test reads the same isConnecting are one step: with
\* the flag still set the whole budget of MaxPollAttempts waits has elapsed;
\* with the flag cleared the loop has left at the first test that read it so
\* (recorded as polls = 1, the turns before that test not being counted).
PollResult(w, run) ==
  AfterPolling(w, [run EXCEPT !.polls = IF w.gw.isConnecting THEN MaxPollAttempts ELSE 1])

\* ------------------------------------------------------ replaceVariables
\* Texts are sequences of tokens: a placeholder is one token, "$&" is the
\* replacement pattern of String.prototype.replace that stands for the
\* matched text, every other token is plain text.
PhName  == "{nome}"
PhPhone == "{telefone}"

\* The custom-field keys considered and the placeholder {key} of each.
FieldKeys == {"cidade", "valor (R$)", "a(b"}
Placeholder == [key \in FieldKeys |->
                 CASE key = "cidade" -> "{cidade}"
                   [] key = "valor (R$)" -> "{valor (R$)}"
                   [] OTHER -> "{a(b}"]
FieldValue == [key \in FieldKeys |->
                 CASE key = "cidade" -> <<"SP">>
                   [] key = "valor (R$)" -> <<"10">>
                   [] OTHER -> <<"x">>]

\* new RegExp(`{${key}}`, 'g'): the key is not escaped.  "matches": the
\* pattern matches the text {key}; "never": it compiles but (R$) anchors at
\* the end of the input, so it matches nothing; "throws": SyntaxError
\* (unterminated group).
Pattern == [key \in FieldKeys |->
              CASE key = "cidade" -> "matches"
                [] key = "valor (R$)" -> "never"
                [] OTHER -> "throws"]

\* The replacement text for a match: "$&" inserts the matched text.
RECURSIVE Expand(_, _)
Expand(val, matched) ==
  IF val = <<>> THEN <<>>
  ELSE (IF Head(val) = "$&" THEN <<matched>> ELSE <<Head(val)>>) \o Expand(Tail(val), matched)

\* text.replace(/ph/g, val)
RECURSIVE Replace(_, _, _)
Replace(text, ph, val) ==
  IF text = <<>> THEN <<>>
  ELSE (IF Head(text) = ph THEN Expand(val, ph) ELSE <<Head(text)>>) \o Replace(Tail(text), ph, val)

\* Object.entries(customFields).forEach(...) inside the try: an exception of
\* new RegExp ends the forEach, the catch keeps what was replaced so far.
RECURSIVE ReplaceFields(_, _)
ReplaceFields(text, fields) ==
  IF fields = <<>> THEN text
  ELSE CASE Pattern[Head(fields)] = "throws" -> text
         [] Pattern[Head(fields)] = "never" -> ReplaceFields(text, Tail(fields))
         [] OTHER -> ReplaceFields(Replace(text, Placeholder[Head(fields)],
                                           FieldValue[Head(fields)]),
                                   Tail(fields))

replaceVariables(messageText, contact) ==
  ReplaceFields(Replace(Replace(messageText, PhName, contact.name), PhPhone, contact.phone),
                contact.customFields)

\* The inputs: templates, contact names and custom-field lists.
TemplateTokens == {"Ola", PhName, PhPhone, "{outro}"} \cup {Placeholder[key] : key \in FieldKeys}
Templates == UNION {[1..n -> TemplateTokens] : n \in 0..MaxTemplateLen}
ContactNames == {<<"Ana">>, <<"$&">>, <<PhPhone>>}
FieldLists == {f \in UNION {[1..n -> FieldKeys] : n \in 0..MaxFields} :
                 \A i, j \in DOMAIN f : i # j => f[i] # f[j]}
RenderContacts == [name : ContactNames, phone : {<<"5511">>}, customFields : FieldLists]

NoRender == [pc |-> "off", messageText |-> <<>>,
             contact |-> [name |-> <<>>, phone |-> <<>>, customFields |-> <<>>], out |-> <<>>]

\* The useWebSocket hook before it is mounted.
NoHook == [mounted |-> FALSE, socket |-> "none", isConnected |-> FALSE,
           reconnectAttempts |-> 0, timers |-> 0, created |-> 0]

\* ---------------------------------------------------------------- actions
Commit(r, st) ==
  /\ camp' = st.w.camp
  /\ contacts' = st.w.contacts
  /\ alog' = st.w.alog
  /\ events' = st.w.events
  /\ delivered' = st.w.delivered
  /\ gw' = st.w.gw
  /\ runs' = [runs EXCEPT ![r] = st.run]

CommitWorld(w) ==
  /\ camp' = w.camp
  /\ contacts' = w.contacts
  /\ alog' = w.alog
  /\ events' = w.events
  /\ delivered' = w.delivered
  /\ gw' = w.gw

InLoop(run) == run.pc \notin {"idle", "done"}

\* A start route without the isConnected() test.
StartWithoutConnectionCheck ==
  \E r \in Runs :
    /\ runs[r].pc = "idle"
    /\ \A q \in Runs : q < r => runs[q].pc # "idle"
    /\ ncmd < MaxCmds
    /\ ncmd' = ncmd + 1
    /\ IF ~camp.exists
       THEN UNCHANGED <<camp, messageBlocks, render, hook, contacts, alog, events, delivered, gw, runs, ngw, nfault>>
       ELSE /\ LET st == ProcessCampaign(UpdateCampaign(World, "status", "active"), runs[r])
               IN Commit(r, Step(Broadcast(CreateActivityLog(st.w, "campaign_started", 0),
                                           "campaign_started", 0),
                                 st.run))
            /\ UNCHANGED <<messageBlocks, render, hook, ngw, nfault>>

\* POST /api/campaigns/:id/start.  404 without the campaign, 400 without a
\* client; otherwise status active, processCampaign launched (not awaited),
\* campaign_started logged and broadcast.
Start ==
  \E r \in Runs :
    /\ runs[r].pc = "idle"
    /\ \A q \in Runs : q < r => runs[q].pc # "idle"
    /\ ncmd < MaxCmds
    /\ ncmd' = ncmd + 1
    /\ IF ~camp.exists \/ ~gw.client
       THEN UNCHANGED <<camp, messageBlocks, render, hook, contacts, alog, events, delivered, gw, runs, ngw, nfault>>
       ELSE /\ LET st == ProcessCampaign(UpdateCampaign(World, "status", "active"), runs[r])
               IN Commit(r, Step(Broadcast(CreateActivityLog(st.w, "campaign_started", 0),
                                           "campaign_started", 0),
                                 st.run))
            /\ UNCHANGED <<messageBlocks, render, hook, ngw, nfault>>

\* The runs inside their loop note the contact they were at when an external
\* command took the campaign out of active (bookkeeping for the properties).
NotePause(rs) ==
  [r \in Runs |-> IF InLoop(rs[r]) /\ rs[r].pausedAt = 0 /\ camp.exists /\ camp.status = "active"
                  THEN [rs[r] EXCEPT !.pausedAt = rs[r].k]
                  ELSE rs[r]]

\* POST /api/campaigns/:id/pause and /stop: status written unconditionally
\* (404 and nothing else without the campaign), logged and broadcast.
SetStatusCommand(status, type) ==
  /\ ncmd < MaxCmds
  /\ ncmd' = ncmd + 1
  /\ IF camp.exists
     THEN CommitWorld(Broadcast(CreateActivityLog(UpdateCampaign(World, "status", status),
                                                  type, 0), type, 0))
     ELSE UNCHANGED <<camp, contacts, alog, events, delivered, gw>>
  /\ runs' = IF status = "paused" THEN NotePause(runs) ELSE runs
  /\ UNCHANGED <<messageBlocks, render, hook, ngw, nfault>>

Pause == SetStatusCommand("paused", "campaign_paused")

Stop == SetStatusCommand("stopped", "campaign_stopped")

\* DELETE /api/campaigns/:id: the contacts, then the campaign row.
Delete ==
  /\ ncmd < MaxCmds
  /\ ncmd' = ncmd + 1
  /\ IF camp.exists
     THEN CommitWorld(Broadcast(CreateActivityLog(
            [World EXCEPT !.camp.exists = FALSE,
                          !.contacts = [c \in Contacts |-> [contacts[c] EXCEPT !.exists = FALSE]]],
            "campaign_deleted", 0), "campaign_deleted", 0))
     ELSE UNCHANGED <<camp, contacts, alog, events, delivered, gw>>
  /\ UNCHANGED <<messageBlocks, render, hook, runs, ngw, nfault>>

\* POST /api/whatsapp/connect: 400 when a client exists, else connect().
ConnectRoute ==
  /\ ngw < MaxGwCmds
  /\ ngw' = ngw + 1
  /\ gw' = IF gw.client THEN gw ELSE GwConnect(gw)
  /\ UNCHANGED <<camp, messageBlocks, render, hook, contacts, alog, events, delivered, runs, ncmd, nfault>>

\* connect() resumes from `await create(...)`: the client is installed and
\* 'connected' emitted, or create threw; finally isConnecting = false.
ConnectDone ==
  \E ok \in BOOLEAN :
    /\ gw.creating > 0
    /\ LET g == [gw EXCEPT !.creating = @ - 1, !.isConnecting = FALSE,
                           !.client = IF ok THEN TRUE ELSE @]
       IN CommitWorld(IF ok THEN OnConnected([World EXCEPT !.gw = g])
                            ELSE [World EXCEPT !.gw = g])
    /\ UNCHANGED <<messageBlocks, render, hook, runs, ncmd, ngw, nfault>>

\* POST /api/whatsapp/disconnect: disconnect() awaits client.close() when a
\* client exists.
DisconnectRoute ==
  /\ ngw < MaxGwCmds
  /\ ngw' = ngw + 1
  /\ gw' = IF gw.client THEN [gw EXCEPT !.closing = @ + 1] ELSE gw
  /\ UNCHANGED <<camp, messageBlocks, render, hook, contacts, alog, events, delivered, runs, ncmd, nfault>>

\* The route's disconnect() resumes from close().
DisconnectDone ==
  /\ gw.closing > 0
  /\ CommitWorld(Disconnected([World EXCEPT !.gw.closing = @ - 1]))
  /\ UNCHANGED <<messageBlocks, render, hook, runs, ncmd, ngw, nfault>>

\* A run's suspended send attempt comes back.
AttemptDone ==
  \E r \in Runs :
    /\ runs[r].pc = "attempt"
    /\ \E outcome \in Outcomes :
         \E logThrows \in (IF outcome = "ok" /\ runs[r].seg = 0 THEN BOOLEAN ELSE {FALSE}) :
           /\ IF outcome = "ok" /\ ~logThrows
              THEN nfault' = nfault
              ELSE nfault < MaxFaults /\ nfault' = nfault + 1
           /\ Commit(r, AttemptResult(World, runs[r], outcome, logThrows))
    /\ UNCHANGED <<messageBlocks, render, hook, ncmd, ngw>>

\* The reset's disconnect() resumes from close().
CloseDone ==
  \E r \in Runs :
    /\ runs[r].pc = "closing"
    /\ Commit(r, Step(Disconnected(World), [runs[r] EXCEPT !.pc = "settle"]))
    /\ UNCHANGED <<messageBlocks, render, hook, ncmd, ngw, nfault>>

\* The reset's 3 s settle wait is over.
SettleDone ==
  \E r \in Runs :
    /\ runs[r].pc = "settle"
    /\ Commit(r, AfterSettle(World, runs[r]))
    /\ UNCHANGED <<messageBlocks, render, hook, ncmd, ngw, nfault>>

\* The reset's polling loop is over.
PollDone ==
  \E r \in Runs :
    /\ runs[r].pc = "poll"
    /\ Commit(r, PollResult(World, runs[r]))
    /\ UNCHANGED <<messageBlocks, render, hook, ncmd, ngw, nfault>>

\* The interval wait before a block is over.
BlockWaitDone ==
  \E r \in Runs :
    /\ runs[r].pc = "waitBlock"
    /\ Commit(r, StartBlock(World, runs[r]))
    /\ UNCHANGED <<messageBlocks, render, hook, ncmd, ngw, nfault>>

\* The interval wait after a contact is over: next iteration of the loop.
NextWaitDone ==
  \E r \in Runs :
    /\ runs[r].pc = "waitNext"
    /\ Commit(r, LoopTop(World, runs[r]))
    /\ UNCHANGED <<messageBlocks, render, hook, ncmd, ngw, nfault>>

\* ------------------------------------------------------------------ Init
Zero(S) == [t \in S |-> [c \in 0..NumContacts |-> 0]]

BlockLists == UNION {[1..n -> {"text", "blank"}] : n \in 0..MaxBlocks}

\* A campaign created with its contact file (status draft, counters 0,
\* totalContacts = number of imported contacts, every contact pending), and
\* the WhatsappService at rest, with or without a session, as an earlier
\* connect() has left it.
StoreInitWith(blockLists) ==
  /\ camp = [exists |-> TRUE, status |-> "draft", sentCount |-> 0, failedCount |-> 0,
             totalContacts |-> NumContacts]
  /\ messageBlocks \in blockLists
  /\ contacts = [c \in Contacts |-> [exists |-> TRUE, status |-> "pending", sentAt |-> 0,
                                     errorMessage |-> ""]]
  /\ delivered = [c \in Contacts |-> 0]
  /\ alog = Zero(LogTypes)
  /\ events = Zero(EventTypes)
  /\ \E session \in BOOLEAN :
       gw = [client |-> session, isConnecting |-> FALSE, creating |-> 0, closing |-> 0]
  /\ runs = [r \in Runs |-> IdleRun]
  /\ ncmd = 0
  /\ ngw = 0
  /\ nfault = 0

StoreInit == StoreInitWith(BlockLists)

Init == StoreInit /\ render = NoRender /\ hook = NoHook

Next ==
  \/ Start
  \/ Pause
  \/ Stop
  \/ Delete
  \/ ConnectRoute
  \/ ConnectDone
  \/ DisconnectRoute
  \/ DisconnectDone
  \/ AttemptDone
  \/ CloseDone
  \/ SettleDone
  \/ PollDone
  \/ BlockWaitDone
  \/ NextWaitDone

Spec == Init /\ [][Next]_vars

\* replaceVariables on its own: any template and contact of the bounded
\* sets, then the call.
RenderInit ==
  /\ StoreInit
  /\ \E t \in Templates, c \in RenderContacts :
       render = [pc |-> "call", messageText |-> t, contact |-> c, out |-> <<>>]
  /\ hook = NoHook

Render ==
  /\ render.pc = "call"
  /\ render' = [render EXCEPT !.pc = "done",
                              !.out = replaceVariables(render.messageText, render.contact)]
  /\ UNCHANGED <<camp, messageBlocks, contacts, alog, events, delivered, gw, runs, ncmd, ngw,
                 nfault, hook>>

RenderNext == Render

RenderSpec == RenderInit /\ [][RenderNext]_vars

\* The event loop runs every continuation that is ready: timers fire and, as
\* long as the gateway calls return, the awaited calls resume.
Fairness ==
  /\ WF_vars(AttemptDone)
  /\ WF_vars(CloseDone)
  /\ WF_vars(SettleDone)
  /\ WF_vars(PollDone)
  /\ WF_vars(BlockWaitDone)
  /\ WF_vars(NextWaitDone)

\* The program when no pause, stop or delete command is issued: start
\* commands, the gateway routes and the continuations of the runs.
QuietNext ==
  \/ Start
  \/ ConnectRoute
  \/ ConnectDone
  \/ DisconnectRoute
  \/ DisconnectDone
  \/ AttemptDone
  \/ CloseDone
  \/ SettleDone
  \/ PollDone
  \/ BlockWaitDone
  \/ NextWaitDone

QuietSpec == Init /\ [][QuietNext]_vars /\ Fairness

\* The same program for a campaign with one block more than MaxBlocks, all
\* of them non-blank.
LongBlockList == [i \in 1..(MaxBlocks + 1) |-> "text"]

BlockInit == StoreInitWith({LongBlockList}) /\ render = NoRender /\ hook = NoHook

BlockSpec == BlockInit /\ [][QuietNext]_vars

\* ------------------------------------------------------------ properties
\* No contact is in the middle of being processed by any run.
AtRest == \A r \in Runs : runs[r].pc \in {"idle", "done", "waitNext"}

\* The contacts that have left pending.
Processed == {c \in Contacts : contacts[c].exists /\ contacts[c].status # "pending"}

\* C1: at most one processCampaign run of the campaign is inside its contact
\* loop at any time (a start on an already-active campaign launches no
\* second run).
C1_AtMostOneRunInLoop == Cardinality({r \in Runs : InLoop(runs[r])}) <= 1

\* C2: every contact receives the primary message at most once, over all
\* runs and commands.
C2_PrimaryAtMostOnce == \A c \in Contacts : delivered[c] <= 1

\* C3: a sendMessage call (retry budget 2) whose sends all failed with the
\* transient error has called the underlying send exactly 3 times and done at
\* most 2 disconnect/reconnect cycles when it returns its failure.
C3_TransientTriedThreeTimes ==
  \A r \in Runs :
    runs[r].ret \in {ErrDetached, ErrReconnectFailed} =>
      /\ runs[r].tries = DefaultRetries + 1
      /\ runs[r].resets <= DefaultRetries

\* C4: a run that was at contact k when the status was set to paused
\* processes no contact after k.
C4_PausedRunStopsAtK ==
  \A r \in Runs : runs[r].pausedAt > 0 => runs[r].k <= runs[r].pausedAt

\* C5: whenever no contact is in the middle of being processed,
\* sentCount + failedCount <= totalContacts.
C5_CountersWithinTotal ==
  AtRest => camp.sentCount + camp.failedCount <= camp.totalContacts

\* C6: whenever no contact is in the middle of being processed,
\* sentCount + failedCount is the number of contacts that have left pending.
C6_CountersEqualProcessed ==
  (AtRest /\ camp.exists) => camp.sentCount + camp.failedCount = Cardinality(Processed)

\* C7: no step stores a smaller sentCount or failedCount than the stored one.
C7_CountersNeverDecrease ==
  [][/\ camp'.sentCount >= camp.sentCount
     /\ camp'.failedCount >= camp.failedCount]_vars

\* C8: the completion that follows the processing of the last pending
\* contact is announced once: at most one run that has processed contacts
\* emits campaign_completed.
C8_CompletedEmittedOnce ==
  Cardinality({r \in Runs : runs[r].emitted /\ runs[r].k > 0}) <= 1

\* C9: status completed is written only over status active.
C9_CompletedOnlyOverActive ==
  [][(camp'.status = "completed" /\ camp.status # "completed") => camp.status = "active"]_vars

\* C10: the step in which a run catches an exception of contact c marks c
\* (and no contact the loop has not moved on to) failed with the exception's
\* message, and the run goes on with the next pending contact: it leaves the
\* loop only when the list is exhausted or the checkpoint finds the campaign
\* not active.
C10_ExceptionFailsContactLoopGoesOn ==
  [][\A r \in Runs :
       runs'[r].exc > runs[r].exc =>
         LET c == CurContact(runs[r]) IN
           /\ contacts[c].exists =>
                /\ contacts'[c].status = "failed"
                /\ contacts'[c].errorMessage = ExceptionMessage
           /\ \A d \in Contacts \ {c} :
                contacts'[d] # contacts[d] =>
                  (runs'[r].k = runs[r].k + 1 /\ d = CurContact(runs'[r]))
           /\ \/ runs'[r].k = runs[r].k + 1
              \/ /\ runs'[r].pc = "done"
                 /\ runs'[r].k = runs[r].k
                 /\ \/ runs[r].k = Len(runs[r].pending)
                    \/ ~camp.exists
                    \/ camp.status # "active"]_vars

\* C10 witness: a run has caught the exception of its first contact, which
\* is failed with the exception's message, and has sent to its second.
C10_Witness ==
  \E r \in Runs :
    /\ runs[r].exc > 0
    /\ runs[r].pending = <<1, 2>>
    /\ runs[r].k = 2
    /\ contacts[1].status = "failed"
    /\ contacts[1].errorMessage = ExceptionMessage
    /\ contacts[2].status = "sent"

\* C11: a contact that has been written sent (its sentAt is set) is never
\* failed afterwards.
C11_SentNeverFailed ==
  \A c \in Contacts : contacts[c].sentAt > 0 => contacts[c].status # "failed"

\* The non-blank blocks among the first n of campaign.messageBlocks.
NonBlank(n) == Cardinality({i \in 1..n : i <= Len(messageBlocks) /\ messageBlocks[i] = "text"})

\* C12: in a step of the only run where, after the primary send and every
\* earlier block (k of them) succeeded, the send of block k+1 comes back with
\* a connection-kind failure, the contact is sent, its activity log holds
\* exactly k+1 success entries and exactly 1 failure entry, and the run
\* leaves the block loop (no further block is waited for).
C12_BlockFailureKeepsSentAndLogs ==
  [][\A r \in Runs :
       (/\ runs[r].seg > 0
        /\ runs[r].pc \in {"attempt", "waitBlock", "poll"}
        /\ runs[r].okBlocks = NonBlank(runs[r].seg - 1)
        /\ runs'[r].ret \in {ErrNotConnected, ErrStateNotConn, ErrDetached, ErrReconnectFailed}
        /\ \A q \in Runs \ {r} : runs[q].pc = "idle"
        /\ contacts'[CurContact(runs[r])].exists)
       => LET c == CurContact(runs[r]) IN
            /\ contacts'[c].status = "sent"
            /\ alog'["message_sent"][c] = runs[r].okBlocks + 1
            /\ alog'["error"][c] + alog'["message_failed"][c] = 1
            /\ runs'[r].pc = "waitNext"]_vars

\* C13: a run moves on from one contact to the primary send of the next only
\* out of its interval wait (the setTimeout of messageInterval seconds).
C13_IntervalBeforeNextContact ==
  [][\A r \in Runs :
       (runs[r].k >= 1 /\ runs'[r].k = runs[r].k + 1) => runs[r].pc = "waitNext"]_vars

\* C14: every contact whose primary send failed (status failed) has at least
\* one failure entry (error or message_failed) in the activity log.
C14_FailureIsLogged ==
  \A c \in Contacts :
    (contacts[c].exists /\ contacts[c].status = "failed")
      => alog["error"][c] + alog["message_failed"][c] >= 1

\* A sendMessage call of the run is inside its gateway reset: from its
\* disconnect() until its reconnect polling ends.
InReset(run) == run.pc \in {"closing", "settle", "poll"}

\* C15: no sendMessage call starts a send attempt while another call on the
\* shared gateway is inside its reset.
C15_NoSendDuringReset ==
  [][\A r \in Runs :
       (runs[r].pc # "attempt" /\ runs'[r].pc = "attempt")
         => \A q \in Runs \ {r} : ~InReset(runs[q])]_vars

\* What the placeholder token t stands for in a simultaneous substitution:
\* the contact's name, phone or custom-field value, or t itself when no
\* field matches.
Substituted(t, contact) ==
  IF t = PhName THEN contact.name
  ELSE IF t = PhPhone THEN contact.phone
  ELSE IF \E i \in DOMAIN contact.customFields : Placeholder[contact.customFields[i]] = t
       THEN FieldValue[CHOOSE key \in FieldKeys : Placeholder[key] = t]
       ELSE <<t>>

RECURSIVE Rendered(_, _)
Rendered(messageText, contact) ==
  IF messageText = <<>> THEN <<>>
  ELSE Substituted(Head(messageText), contact) \o Rendered(Tail(messageText), contact)

\* C16: replaceVariables returns the template with every placeholder that
\* has a matching field replaced by the field's value and every other token
\* left verbatim.
C16_RenderReplacesEveryPlaceholder ==
  render.pc = "done" => render.out = Rendered(render.messageText, render.contact)

\* C17: the reset of a sendMessage call reconnects: when it enters its
\* polling loop the gateway has a client or a create() in flight that can
\* install one.
C17_ResetReconnects ==
  [][\A r \in Runs :
       (runs[r].pc = "settle" /\ runs'[r].pc = "poll") => (gw'.client \/ gw'.creating > 0)]_vars

\* C18: a step in which a run calls sendMessage while the gateway has no
\* client returns the not-connected failure at once: no send attempt, no
\* reset, the retry budget untouched, the gateway as it was and nothing
\* delivered to the contact.
C18_NotConnectedFailsImmediately ==
  [][\A r \in Runs :
       (/\ runs'[r].ret = ErrNotConnected
        /\ <<runs'[r].k, runs'[r].seg, runs'[r].ret>> # <<runs[r].k, runs[r].seg, runs[r].ret>>)
       => /\ runs'[r].tries = 0
          /\ runs'[r].resets = 0
          /\ runs'[r].retries = DefaultRetries
          /\ gw' = gw
          /\ delivered'[CurContact(runs'[r])] = delivered[CurContact(runs'[r])]]_vars

\* C18 witness: a primary send was refused because the gateway had no
\* client, and the contact is failed with that reason.
C18_Witness ==
  \E r \in Runs :
    /\ runs[r].k >= 1
    /\ runs[r].seg = 0
    /\ runs[r].ret = ErrNotConnected
    /\ runs[r].tries = 0
    /\ ~gw.client
    /\ contacts[CurContact(runs[r])].status = "failed"
    /\ contacts[CurContact(runs[r])].errorMessage = ErrNotConnected

\* C19: the step in which a send attempt comes back with a permanent error
\* ends the sendMessage call: that attempt is counted, no reset and no retry
\* follow, and for the primary message the contact is failed with the
\* error's reason.
C19_PermanentFailsAtOnce ==
  [][\A r \in Runs :
       (runs[r].pc = "attempt" /\ runs'[r].ret = ErrPermanent)
       => /\ runs'[r].tries = runs[r].tries + 1
          /\ runs'[r].resets = runs[r].resets
          /\ runs'[r].retries = runs[r].retries
          /\ runs'[r].pc \in {"waitNext", "waitBlock"}
          /\ (runs[r].seg = 0 /\ contacts'[CurContact(runs[r])].exists)
               => /\ contacts'[CurContact(runs[r])].status = "failed"
                  /\ contacts'[CurContact(runs[r])].errorMessage = ErrPermanent]_vars

\* C19 witness: a primary send failed permanently at its first attempt and
\* the contact is failed with that reason.
C19_Witness ==
  \E r \in Runs :
    /\ runs[r].seg = 0
    /\ runs[r].ret = ErrPermanent
    /\ runs[r].tries = 1
    /\ runs[r].resets = 0
    /\ runs[r].pc = "waitNext"
    /\ contacts[CurContact(runs[r])].status = "failed"
    /\ contacts[CurContact(runs[r])].errorMessage = ErrPermanent

\* C20: a run that was only started (no pause, stop or delete) and whose
\* every processed contact was refused because the gateway was not connected
\* has, when it ends, gone through all its pending contacts: each is failed,
\* failedCount went up by one per contact, and the campaign is completed.
C20_NotConnectedRunCompletes ==
  \A r \in Runs :
    (/\ runs[r].pc = "done"
     /\ ncmd = 1
     /\ runs[r].k >= 1
     /\ runs[r].refused = runs[r].k)
    => /\ runs[r].k = Len(runs[r].pending)
       /\ \A i \in 1..Len(runs[r].pending) :
            /\ contacts[runs[r].pending[i]].status = "failed"
            /\ IsNotConnected(contacts[runs[r].pending[i]].errorMessage)
       /\ camp.failedCount = Len(runs[r].pending)
       /\ camp.sentCount = 0
       /\ camp.status = "completed"

\* C20 witness: such a run over two contacts has ended.
C20_Witness ==
  \E r \in Runs :
    /\ runs[r].pc = "done"
    /\ ncmd = 1
    /\ runs[r].refused = 2
    /\ runs[r].k = 2
    /\ ~gw.client
    /\ camp.failedCount = 2
    /\ camp.status = "completed"

\* C21: with no pause, stop or delete command issued, a started run
\* terminates, and when it does no contact is pending and the campaign is
\* completed.
C21_RunTerminatesCompleted ==
  \A r \in Runs :
    (runs[r].pc # "idle") ~>
      (/\ runs[r].pc = "done"
       /\ PendingContacts(contacts) = <<>>
       /\ camp.status = "completed")

\* C21 witness: a run has gone through both contacts and ended, with no
\* pause, stop or delete issued.
C21_Witness ==
  \E r \in Runs :
    /\ runs[r].pc = "done"
    /\ runs[r].k = NumContacts
    /\ PendingContacts(contacts) = <<>>
    /\ camp.status = "completed"

\* C22: a run takes its contacts one at a time in stored order: whenever it
\* moves on, it moves to the next entry of its list, which comes later in
\* stored order; the contact it leaves is no longer pending, and the run
\* leaves it from the interval wait that ends its processing or from the
\* catch of an exception of its primary send (no block wait or send of that
\* contact is outstanding).
C22_OneContactAtATimeInOrder ==
  [][\A r \in Runs :
       runs'[r].k # runs[r].k =>
         /\ runs'[r].k = runs[r].k + 1
         /\ \A i, j \in 1..Len(runs'[r].pending) :
              i < j => runs'[r].pending[i] < runs'[r].pending[j]
         /\ runs[r].k >= 1 =>
              /\ runs'[r].pending = runs[r].pending
              /\ contacts'[CurContact(runs[r])].status # "pending"
              /\ \/ runs[r].pc = "waitNext"
                 \/ (runs[r].pc = "attempt" /\ runs[r].seg = 0 /\ runs'[r].exc > runs[r].exc)]_vars

\* C22 witness: a run has started the primary send of its second contact
\* after the primary message and a block went to its first.
C22_Witness ==
  \E r \in Runs :
    /\ runs[r].pending = <<1, 2>>
    /\ runs[r].k = 2
    /\ runs[r].pc = "attempt"
    /\ runs[r].seg = 0
    /\ contacts[1].status = "sent"
    /\ events["message_block_sent"][1] = 1

C24_InactiveSkipsBlocks ==
  [][\A r \in Runs :
       /\ (/\ runs[r].pc = "waitBlock"
           /\ runs'[r].pc # "waitBlock"
           /\ (~camp.exists \/ camp.status # "active"))
          => /\ runs'[r].pc = "waitNext"
             /\ runs'[r].k = runs[r].k
             /\ runs'[r].okBlocks = runs[r].okBlocks
             /\ contacts' = contacts
             /\ delivered' = delivered
             /\ alog'["message_sent"] = alog["message_sent"]
             /\ events'["message_block_sent"] = events["message_block_sent"]
       /\ (runs[r].pc = "idle" /\ runs'[r].pc # "idle")
          => \A i \in 1..Len(runs'[r].pending) :
               contacts[runs'[r].pending[i]].status = "pending"]_vars

\* C24 witness: a run has skipped block 1 of a sent contact because the
\* campaign was paused, and is in the interval wait after that contact.
C24_Witness ==
  \E r \in Runs :
    /\ runs[r].pc = "waitNext"
    /\ runs[r].seg = 1
    /\ runs[r].okBlocks = 0
    /\ runs[r].ret = "ok"
    /\ camp.status = "paused"
    /\ contacts[CurContact(runs[r])].status = "sent"
    /\ events["message_block_sent"][CurContact(runs[r])] = 0

\* C25: when a block send comes back with a reason that says the gateway
\* connection is down (no client, state not CONNECTED, transient frame error
\* with the retries used up, reconnection failed), the run leaves the block
\* loop: it waits for and attempts no further block of that contact.
C25_ConnectionDownStopsBlocks ==
  [][\A r \in Runs :
       (/\ runs[r].seg > 0
        /\ runs[r].pc \in {"attempt", "waitBlock", "poll"}
        /\ runs'[r] # runs[r]
        /\ runs'[r].ret \in {ErrNotConnected, ErrStateNotConn, ErrDetached, ErrReconnectFailed})
       => runs'[r].pc = "waitNext"]_vars

\* C26: while a run is waiting for or sending a block of a contact, the sent
\* progress event of that contact has been emitted.
C26_ProgressBeforeBlocks ==
  \A r \in Runs :
    (runs[r].seg > 0 /\ runs[r].pc \in {"waitBlock", "attempt", "closing", "settle", "poll"})
      => events["progress_sent"][CurContact(runs[r])] >= 1

\* The run calls sendMessage for a new segment in this step: a send attempt
\* begins (other than sendMessage's own retry after a reset), or the call is
\* refused at once for want of a client.
InitiatesSend(r) ==
  \/ /\ runs'[r].pc = "attempt"
     /\ runs[r].pc # "poll"
     /\ (runs[r].pc # "attempt" \/ runs'[r].k # runs[r].k)
  \/ /\ runs'[r].ret = ErrNotConnected
     /\ <<runs'[r].k, runs'[r].seg, runs'[r].ret>> # <<runs[r].k, runs[r].seg, runs[r].ret>>

\* C27: a run calls sendMessage for a new segment, and moves to a later
\* contact, only in a step whose checkpoint read the campaign as active; a
\* run that comes out of its interval wait with the campaign not active
\* leaves its loop at the contact it was at.
C27_NoSendAfterPause ==
  [][\A r \in Runs :
       /\ (InitiatesSend(r) \/ runs'[r].k # runs[r].k)
            => (camp'.exists /\ camp'.status = "active")
       /\ (/\ runs[r].pc = "waitNext"
           /\ runs'[r].pc # "waitNext"
           /\ (~camp.exists \/ camp.status # "active"))
            => (runs'[r].pc = "done" /\ runs'[r].k = runs[r].k)]_vars

\* C27 witness: a run has left its loop after its first contact because the
\* campaign was paused; the second contact is still pending.
C27_Witness ==
  \E r \in Runs :
    /\ runs[r].pc = "done"
    /\ runs[r].pending = <<1, 2>>
    /\ runs[r].k = 1
    /\ runs[r].pausedAt = 1
    /\ camp.status = "paused"
    /\ contacts[1].status = "sent"
    /\ contacts[2].status = "pending"
    /\ delivered[2] = 0

\* C28: a pause changes the status only of an active campaign, a stop only of
\* an active or paused one; a draft, completed or stopped campaign keeps its
\* status under both commands.
C28_PauseStopOnlyFromAllowed ==
  [][/\ (camp'.status = "paused" /\ camp.status # "paused") => camp.status = "active"
     /\ (camp'.status = "stopped" /\ camp.status # "stopped")
          => camp.status \in {"active", "paused"}]_vars

\* C29: a contact's sentAt has been written at most once, and it is set only
\* on a contact whose status is sent.
C29_SentAtOnceOnlyWhenSent ==
  \A c \in Contacts :
    contacts[c].exists =>
      /\ contacts[c].sentAt <= 1
      /\ contacts[c].sentAt > 0 => contacts[c].status = "sent"

\* C30: a contact has a non-empty errorMessage only if its status is failed.
C30_ErrorMessageOnlyWhenFailed ==
  \A c \in Contacts :
    (contacts[c].exists /\ contacts[c].errorMessage # "") => contacts[c].status = "failed"

\* C31: a step in which a pending contact is written failed emits exactly one
\* campaign_progress event with status failed for that contact, and a run in
\* the interval wait after a contact it wrote sent has emitted a
\* campaign_progress event with status sent for it.
C31_ProgressEventPerContact ==
  [][/\ \A c \in Contacts :
          (contacts[c].status = "pending" /\ contacts'[c].status = "failed")
            => events'["progress_failed"][c] = events["progress_failed"][c] + 1
     /\ \A r \in Runs :
          (/\ runs'[r].pc = "waitNext"
           /\ runs'[r].ret = "ok"
           /\ contacts'[CurContact(runs'[r])].status = "sent")
            => events'["progress_sent"][CurContact(runs'[r])] >= 1]_vars

\* ------------------------------------------- processCampaign on any store
\* A contact row as the dispatcher leaves it in each status.
ContactRow(status) ==
  [exists |-> TRUE, status |-> status, sentAt |-> IF status = "sent" THEN 1 ELSE 0,
   errorMessage |-> IF status = "failed" THEN ErrPermanent ELSE ""]

\* The number of contacts with the given status.
CountOf(cs, status) == Cardinality({c \in Contacts : cs[c].status = status})

\* Any campaign row (present or deleted, in any status) with its contacts in
\* any statuses and the counters that go with them; no run yet.
EntryInit ==
  /\ \E present \in BOOLEAN, status \in CampaignStatuses,
        cs \in [Contacts -> {ContactRow(s) : s \in ContactStatuses}] :
       /\ camp = [exists |-> present, status |-> status,
                  sentCount |-> CountOf(cs, "sent"), failedCount |-> CountOf(cs, "failed"),
                  totalContacts |-> NumContacts]
       /\ contacts = [c \in Contacts |-> [cs[c] EXCEPT !.exists = present]]
  /\ messageBlocks \in BlockLists
  /\ delivered = [c \in Contacts |-> 0]
  /\ alog = Zero(LogTypes)
  /\ events = Zero(EventTypes)
  /\ \E session \in BOOLEAN :
       gw = [client |-> session, isConnecting |-> FALSE, creating |-> 0, closing |-> 0]
  /\ runs = [r \in Runs |-> IdleRun]
  /\ ncmd = 0
  /\ ngw = 0
  /\ nfault = 0
  /\ render = NoRender /\ hook = NoHook

\* processCampaign(campaignId) called on the store as it is.
Invoke ==
  \E r \in Runs :
    /\ runs[r].pc = "idle"
    /\ \A q \in Runs : q < r => runs[q].pc # "idle"
    /\ ncmd < MaxCmds
    /\ ncmd' = ncmd + 1
    /\ Commit(r, ProcessCampaign(World, runs[r]))
    /\ UNCHANGED <<messageBlocks, render, hook, ngw, nfault>>

EntryNext ==
  \/ Invoke
  \/ AttemptDone
  \/ CloseDone
  \/ SettleDone
  \/ PollDone
  \/ BlockWaitDone
  \/ NextWaitDone

EntrySpec == EntryInit /\ [][EntryNext]_vars

\* C32: a processCampaign call that finds the campaign missing or not active
\* ends at once: nothing is delivered, the campaign, the contacts and the
\* activity log are as they were and no event is broadcast.
C32_InactiveEntryDoesNothing ==
  [][\A r \in Runs :
       (/\ runs[r].pc = "idle"
        /\ runs'[r].pc # "idle"
        /\ (~camp.exists \/ camp.status # "active"))
         => /\ runs'[r].pc = "done"
            /\ UNCHANGED <<camp, contacts, alog, events, delivered, gw>>]_vars

\* C32 witness: processCampaign has returned on a paused campaign none of
\* whose contacts is pending; the campaign is still paused.
C32_Witness ==
  /\ runs[1].pc = "done"
  /\ runs[1].pending = <<>>
  /\ camp.exists
  /\ camp.status = "paused"
  /\ \A c \in Contacts : contacts[c].status # "pending"
  /\ alog["campaign_completed"][0] = 0
  /\ events["campaign_completed"][0] = 0

\* C33: the step in which a run's loop ends while a contact is still pending
\* leaves the campaign status as it was, appends no campaign_completed log
\* entry and broadcasts no campaign_completed event.
C33_PendingLeftNoCompletion ==
  [][\A r \in Runs :
       (/\ InLoop(runs[r])
        /\ runs'[r].pc = "done"
        /\ PendingContacts(contacts') # <<>>)
         => /\ camp'.status = camp.status
            /\ alog'["campaign_completed"] = alog["campaign_completed"]
            /\ events'["campaign_completed"] = events["campaign_completed"]
            /\ ~runs'[r].emitted]_vars

\* C33 witness: a run has ended on a stopped campaign with its second contact
\* still pending; the campaign is still stopped and nothing was announced.
C33_Witness ==
  \E r \in Runs :
    /\ runs[r].pc = "done"
    /\ runs[r].pending = <<1, 2>>
    /\ runs[r].k = 1
    /\ camp.status = "stopped"
    /\ contacts[2].status = "pending"
    /\ alog["campaign_completed"][0] = 0
    /\ events["campaign_completed"][0] = 0

\* C34: a step that writes sentCount or failedCount leaves the campaign's
\* status as it was, and so does every step of a run that stays in its loop:
\* the status an external command wrote is the one the next checkpoint reads.
C34_CounterWritesKeepStatus ==
  [][/\ (camp'.sentCount # camp.sentCount \/ camp'.failedCount # camp.failedCount)
          => camp'.status = camp.status
     /\ (/\ ncmd' = ncmd
         /\ \E r \in Runs : InLoop(runs[r]) /\ InLoop(runs'[r]) /\ runs'[r] # runs[r])
          => camp'.status = camp.status]_vars

\* C34 witness: the campaign was paused while the only run waited before the
\* block of its first contact; the run has skipped the block and written
\* sentCount, and the campaign is still paused.
C34_Witness ==
  /\ runs[1].pc = "waitNext"
  /\ runs[1].k = 1
  /\ runs[1].seg = 1
  /\ runs[1].ret = "ok"
  /\ runs[1].okBlocks = 0
  /\ runs[2].pc = "idle"
  /\ nfault = 0
  /\ ncmd = 2
  /\ alog["campaign_paused"][0] = 1
  /\ camp.status = "paused"
  /\ camp.sentCount = 1

\* C35: when a sendMessage call leaves its gateway reset (the polling loop is
\* over and the call retries or returns), the isConnecting flag is clear
\* unless a create() is in flight that will clear it.
C35_ResetClearsIsConnecting ==
  [][\A r \in Runs :
       (runs[r].pc = "poll" /\ runs'[r].pc # "poll")
         => (gw'.isConnecting => gw'.creating > 0)]_vars

\* ------------------------------------- WhatsappService, session by session
\* connect() and disconnect() with the underlying sessions told apart.  Here
\* gw.client is the session this.client refers to (0: null), gw.open the
\* sessions create() has opened and no close() has ended, gw.closing[s] the
\* disconnect() calls suspended in `await this.client.close()` on session s,
\* gw.made the number of sessions opened so far.
MaxSessionCalls == 5

Sessions == 1..(MaxSessionCalls + 1)

SessionInit ==
  /\ camp = [exists |-> TRUE, status |-> "draft", sentCount |-> 0, failedCount |-> 0,
             totalContacts |-> NumContacts]
  /\ messageBlocks = <<>>
  /\ contacts = [c \in Contacts |-> ContactRow("pending")]
  /\ delivered = [c \in Contacts |-> 0]
  /\ alog = Zero(LogTypes)
  /\ events = Zero(EventTypes)
  /\ \E held \in BOOLEAN :
       gw = [client |-> IF held THEN 1 ELSE 0, isConnecting |-> FALSE, creating |-> 0,
             closing |-> [s \in Sessions |-> 0],
             open |-> IF held THEN {1} ELSE {},
             made |-> IF held THEN 1 ELSE 0]
  /\ runs = [r \in Runs |-> IdleRun]
  /\ ncmd = 0
  /\ ngw = 0
  /\ nfault = 0
  /\ render = NoRender /\ hook = NoHook

\* connect() up to `await create(...)`.
SessionConnect ==
  /\ ngw < MaxSessionCalls
  /\ ngw' = ngw + 1
  /\ gw' = IF gw.isConnecting \/ gw.client # 0 THEN gw
           ELSE [gw EXCEPT !.isConnecting = TRUE, !.creating = @ + 1]
  /\ UNCHANGED <<camp, messageBlocks, render, hook, contacts, alog, events, delivered, runs, ncmd, nfault>>

\* connect() resumes from `await create(...)`: a new session is installed as
\* this.client and 'connected' emitted, or create threw; finally
\* isConnecting = false.
SessionCreated ==
  \E ok \in BOOLEAN :
    /\ gw.creating > 0
    /\ LET g == [gw EXCEPT !.creating = @ - 1, !.isConnecting = FALSE]
       IN CommitWorld(IF ok
                      THEN OnConnected([World EXCEPT !.gw = [g EXCEPT !.client = gw.made + 1,
                                                                       !.open = @ \cup {gw.made + 1},
                                                                       !.made = @ + 1]])
                      ELSE [World EXCEPT !.gw = g])
    /\ UNCHANGED <<messageBlocks, render, hook, runs, ncmd, ngw, nfault>>

\* disconnect() up to `await this.client.close()`: nothing without a client.
SessionDisconnect ==
  /\ ngw < MaxSessionCalls
  /\ ngw' = ngw + 1
  /\ gw' = IF gw.client # 0 THEN [gw EXCEPT !.closing[gw.client] = @ + 1] ELSE gw
  /\ UNCHANGED <<camp, messageBlocks, render, hook, contacts, alog, events, delivered, runs, ncmd, nfault>>

\* disconnect() resumes from close() of session s: this.client = null,
\* whatever it refers to by now, and 'disconnected' emitted.
SessionClosed ==
  \E s \in Sessions :
    /\ gw.closing[s] > 0
    /\ CommitWorld(OnDisconnected([World EXCEPT !.gw = [gw EXCEPT !.closing[s] = @ - 1,
                                                                   !.open = @ \ {s},
                                                                   !.client = 0]]))
    /\ UNCHANGED <<messageBlocks, render, hook, runs, ncmd, ngw, nfault>>

SessionNext ==
  \/ SessionConnect
  \/ SessionCreated
  \/ SessionDisconnect
  \/ SessionClosed

SessionSpec == SessionInit /\ [][SessionNext]_vars

\* C36: at most one underlying session is being created or is open at a time.
C36_AtMostOneSession ==
  Cardinality(gw.open) + gw.creating <= 1

\* C37: while the campaign is missing or the gateway has no client, no step
\* launches a run, writes status active, appends a campaign_started log entry
\* or broadcasts campaign_started: a start command in such a state has no
\* effect.
C37_RejectedStartHasNoEffect ==
  [][(~camp.exists \/ ~gw.client)
       => /\ \A r \in Runs : runs[r].pc = "idle" => runs'[r].pc = "idle"
          /\ camp'.status = "active" => camp.status = "active"
          /\ alog'["campaign_started"] = alog["campaign_started"]
          /\ events'["campaign_started"] = events["campaign_started"]]_vars

\* C37 witness: the one command issued so far was a start on a draft
\* campaign while the gateway had no client; the campaign is still draft, no
\* run exists, nothing was logged or broadcast.
C37_Witness ==
  /\ ncmd = 1
  /\ ngw = 0
  /\ ~gw.client
  /\ camp.exists
  /\ camp.status = "draft"
  /\ \A r \in Runs : runs[r].pc = "idle"
  /\ alog = Zero(LogTypes)
  /\ events = Zero(EventTypes)

\* C38: once the campaign is deleted, no step writes the campaign or a
\* contact, appends a campaign_completed log entry or broadcasts
\* campaign_completed.
C38_DeletedCampaignNotCompleted ==
  [][~camp.exists
       => /\ camp' = camp
          /\ contacts' = contacts
          /\ alog'["campaign_completed"] = alog["campaign_completed"]
          /\ events'["campaign_completed"] = events["campaign_completed"]]_vars

\* ------------------------------------------------- client: useWebSocket
\* hook.socket is the state of the WebSocket ws.current refers to
\* ("connecting", "open", "closing" after close() was called on it, "closed"
\* once its close event was delivered), hook.timers the reconnect timeouts
\* pending, hook.created the number of `new WebSocket(wsUrl)` calls so far.
maxReconnectAttempts == 5

MaxSockets == 8

\* connect(): a new socket replaces ws.current.
HookConnect(h) == [h EXCEPT !.socket = "connecting", !.created = @ + 1]

\* ws.current.onclose: setIsConnected(false); while the counter is below the
\* limit, count the attempt and schedule connect().
OnClose(h) ==
  IF h.reconnectAttempts < maxReconnectAttempts
  THEN [h EXCEPT !.socket = "closed", !.isConnected = FALSE,
                 !.reconnectAttempts = @ + 1, !.timers = @ + 1]
  ELSE [h EXCEPT !.socket = "closed", !.isConnected = FALSE]

\* The backend state as it is left alone by the hook.
HookInit ==
  /\ StoreInitWith({<<>>})
  /\ render = NoRender
  /\ hook = HookConnect([NoHook EXCEPT !.mounted = TRUE])

\* ws.current.onopen
SocketOpened ==
  /\ hook.socket = "connecting"
  /\ hook' = [hook EXCEPT !.socket = "open", !.isConnected = TRUE, !.reconnectAttempts = 0]
  /\ UNCHANGED <<camp, messageBlocks, contacts, alog, events, delivered, gw, runs, ncmd, ngw,
                 nfault, render>>

\* The connection fails or the server or the network closes it: the close
\* event of the current socket.
SocketLost ==
  /\ hook.socket \in {"connecting", "open"}
  /\ hook' = OnClose(hook)
  /\ UNCHANGED <<camp, messageBlocks, contacts, alog, events, delivered, gw, runs, ncmd, ngw,
                 nfault, render>>

\* The effect's cleanup: ws.current.close() (nothing on a socket already
\* closed).
Unmount ==
  /\ hook.mounted
  /\ hook' = [hook EXCEPT !.mounted = FALSE,
                          !.socket = IF @ \in {"connecting", "open"} THEN "closing" ELSE @]
  /\ UNCHANGED <<camp, messageBlocks, contacts, alog, events, delivered, gw, runs, ncmd, ngw,
                 nfault, render>>

\* The close event of a socket closed by close().
SocketClosed ==
  /\ hook.socket = "closing"
  /\ hook' = OnClose(hook)
  /\ UNCHANGED <<camp, messageBlocks, contacts, alog, events, delivered, gw, runs, ncmd, ngw,
                 nfault, render>>

\* A reconnect timeout fires: connect().
ReconnectTimer ==
  /\ hook.timers > 0
  /\ hook.created < MaxSockets
  /\ hook' = HookConnect([hook EXCEPT !.timers = @ - 1])
  /\ UNCHANGED <<camp, messageBlocks, contacts, alog, events, delivered, gw, runs, ncmd, ngw,
                 nfault, render>>

HookNext ==
  \/ SocketOpened
  \/ SocketLost
  \/ Unmount
  \/ SocketClosed
  \/ ReconnectTimer

HookSpec == HookInit /\ [][HookNext]_vars

\* C39: once the hook is unmounted no step creates a WebSocket, and the
\* count of consecutive reconnections without a successful open never
\* exceeds maxReconnectAttempts.
C39_NoSocketAfterUnmount ==
  [][/\ ~hook.mounted => hook'.created = hook.created
     /\ hook'.reconnectAttempts <= maxReconnectAttempts]_vars

====
